---------------------------- MODULE Spec2Model ----------------------------
(***************************************************************************)
(* Amazon competitor analysis dashboard: the scraping client               *)
(* (src/src/oxylabs_client.py), the orchestration service                  *)
(* (src/src/services.py) and the dashboard controller (src/main.py).       *)
(*                                                                         *)
(* One script run of main() is one turn.  The scraping API is the          *)
(* environment: each turn draws its responses from small sets.             *)
(* The product store (src/db.py) is not among the sources; it is modelled  *)
(* from its description: an append-only list of records in insertion order.*)
(***************************************************************************)
EXTENDS Integers, Sequences, FiniteSets, TLC

VARIABLES
    store,      \* Product Store: sequence of persisted records
    session,    \* st.session_state["analyzing_asin"], None when absent
    turn,       \* what the last script run of main() did
    sIn, sOut,  \* search_competitors: responses of one call, its result
    bIn, bOut,  \* scrape_multiple_products: inputs of one call, its result
    cIn, cOut,  \* fetch_and_store_competitors: inputs of one call, its result
    tIn, tOut   \* _clean_search_title: the title of one call, its result

vars == <<store, session, turn, sIn, sOut, bIn, bOut, cIn, cOut, tIn, tOut>>

---------------------------------------------------------------------------
(* Values *)

\* Python None, also a key that is absent from a dict
None == "None"

\* Python truthiness of an optional string
Falsy(x) == x = None \/ x = ""

AsinPool ==
    << "B01", "B02", "B03", "B04", "B05", "B06", "B07", "B08", "B09", "B10",
       "B11", "B12", "B13", "B14", "B15", "B16", "B17", "B18", "B19", "B20",
       "B21", "B22", "B23", "B24", "B25", "B26" >>

Asins(n) == { AsinPool[i] : i \in 1..n }

PoolIndex(a) == CHOOSE i \in 1..Len(AsinPool) : AsinPool[i] = a

Min(a, b) == IF a <= b THEN a ELSE b
Max(a, b) == IF a >= b THEN a ELSE b

Range(s) == { s[i] : i \in 1..Len(s) }

\* the element of a one-element set; { F(v) : v \in {e} } evaluates e once for
\* all the places where F uses it
The(S) == CHOOSE v \in S : TRUE

\* a sequence given as a function on 1..n, as a tuple
AsList(f) == f \o <<>>

\* list(set(...)) of Python: the elements of S once each, in an order the
\* caller cannot rely on; k selects the order (a rotation of pool order)
ListOfSet(S, k) ==
    LET base == SelectSeq(AsinPool, LAMBDA a : a \in S)
        n    == Len(base)
        r    == IF n = 0 THEN 0 ELSE k % n
    IN  [ i \in 1..n |-> base[((i - 1 + r) % n) + 1] ]

---------------------------------------------------------------------------
(* Bounds *)

MaxStore == 3   \* records the store may hold in the dashboard specification

---------------------------------------------------------------------------
(* Scraping client: product details *)

\* a detail response whose content has none of the fields
EmptyContent ==
    [asin |-> None, title |-> None, categories |-> <<>>, category_path |-> <<>>]

NoRecord ==
    [asin |-> None, title |-> None, categories |-> <<>>, category_path |-> <<>>,
     parent_asin |-> None]

\* _post_query: raise_for_status() raises on a non-success reply
Raises(reply) == reply.status = "raise"

\* _extract_content: the content mapping inside the reply's envelope
ExtractContent(reply) == reply.content

\* _normalize_product: the record's fields; category_path keeps the truthy entries.
\* The record has no parent_asin key.
NormalizeProduct(content) ==
    [asin          |-> content.asin,
     title         |-> content.title,
     categories    |-> content.categories,
     category_path |-> SelectSeq(content.category_path, LAMBDA c : ~Falsy(c)),
     parent_asin   |-> None]

\* scrape_product_details lines 75-77: the requested asin replaces a falsy one
\* scrape_product_details without lines 75-77
NoBackfill(normalized, asin) == normalized

BackfillAsin(normalized, asin) ==
    IF Falsy(normalized.asin) THEN [normalized EXCEPT !.asin = asin] ELSE normalized

\* scrape_product_details: ok = FALSE when _post_query raised
ScrapeProductDetails(asin, detail) ==
    IF Raises(detail[asin])
    THEN [ok |-> FALSE, val |-> NoRecord]
    ELSE [ok  |-> TRUE,
          val |-> BackfillAsin(NormalizeProduct(ExtractContent(detail[asin])), asin)]

---------------------------------------------------------------------------
(* Scraping client: the batch *)

QueryEvent(a) == [e |-> "query", asin |-> a]
PauseEvent    == [e |-> "pause", asin |-> None]

\* one pass of the loop of scrape_multiple_products (lines 192-204): the query,
\* then the sleep; the except branch continues, which skips the sleep
PassEvents(a, detail) ==
    IF ScrapeProductDetails(a, detail).ok
    THEN <<QueryEvent(a), PauseEvent>>
    ELSE <<QueryEvent(a)>>

\* what the pass of asin a did
PassAttempt(a, detail) ==
    [req |-> a, ok |-> ScrapeProductDetails(a, detail).ok,
     reply_asin |-> IF ScrapeProductDetails(a, detail).ok
                    THEN ExtractContent(detail[a]).asin ELSE None]

\* the events of the passes before pass i: a query each, and a pause for each
\* pass that emitted two events
EventsBefore(asins, i, detail) ==
    (i - 1) + Cardinality({ j \in 1..(i - 1) : Len(PassEvents(asins[j], detail)) = 2 })

\* the pass that emitted the k-th event
PassOfEvent(asins, k, detail) ==
    CHOOSE i \in 1..Len(asins) :
        EventsBefore(asins, i, detail) < k /\ k <= EventsBefore(asins, i + 1, detail)

\* the events of all passes, in order
BatchEvents(asins, detail) ==
    AsList([ k \in 1..EventsBefore(asins, Len(asins) + 1, detail) |->
        PassEvents(asins[PassOfEvent(asins, k, detail)], detail)
            [k - EventsBefore(asins, PassOfEvent(asins, k, detail), detail)] ])

\* products.append(product) of the passes that raised nothing, in order
BatchProducts(fetched, detail) ==
    AsList([ i \in 1..Len(fetched) |-> ScrapeProductDetails(fetched[i], detail).val ])

\* the asins before the first one whose fetch raises
UntilFailure(asins, detail) ==
    SubSeq(asins, 1,
           Cardinality({ i \in 1..Len(asins) :
                           \A j \in 1..i : ScrapeProductDetails(asins[j], detail).ok }))

\* a batch that the first failure ended
BatchAborting(asins, detail) ==
    [products |-> BatchProducts(UntilFailure(asins, detail), detail),
     events   |-> BatchEvents(UntilFailure(asins, detail), detail),
     attempts |-> AsList([i \in 1..Len(UntilFailure(asins, detail)) |->
                            PassAttempt(asins[i], detail)])]

\* lines 192-204: the passes of the loop
BatchOf(asins, detail) ==
    [products |-> BatchProducts(
                      SelectSeq(asins, LAMBDA a : ScrapeProductDetails(a, detail).ok),
                      detail),
     events   |-> BatchEvents(asins, detail),
     attempts |-> AsList([i \in 1..Len(asins) |-> PassAttempt(asins[i], detail)])]

\* scrape_multiple_products: a pass for every asin of the list, in list order
ScrapeMultipleProducts(asins, detail) ==
    The({ BatchOf(list, detail) : list \in {asins} })

---------------------------------------------------------------------------
(* Scraping client: competitor search *)

\* strategies = ["featured", "price_asc", "price_desc", "avg_rating"]
Strategies == <<"featured", "price_asc", "price_desc", "avg_rating">>

\* _clean_search_title applied to the parent's title: `" - " in title` raises
\* TypeError when the title is None
TitleRaises(title) == title = None

\* a title as the sequence of its characters; the separators of lines 87-90
Dash == <<" ", "-", " ">>
Bar  == <<"|">>

\* `sep in title`
Contains(title, sep) ==
    \E i \in 1..(Len(title) - Len(sep) + 1) : SubSeq(title, i, i + Len(sep) - 1) = sep

\* title.split(sep)[0]: what precedes the first occurrence of sep, all of the
\* title when there is none
SplitFirst(title, sep) ==
    IF Contains(title, sep)
    THEN SubSeq(title, 1,
                (CHOOSE i \in 1..(Len(title) - Len(sep) + 1) :
                    /\ SubSeq(title, i, i + Len(sep) - 1) = sep
                    /\ \A j \in 1..(i - 1) : SubSeq(title, j, j + Len(sep) - 1) # sep) - 1)
    ELSE title

\* title.strip(): the title from its first to its last character that is no
\* whitespace
Strip(title) ==
    IF \A i \in 1..Len(title) : title[i] = " " THEN <<>>
    ELSE SubSeq(title,
                CHOOSE i \in 1..Len(title) :
                    title[i] # " " /\ \A j \in 1..(i - 1) : title[j] = " ",
                CHOOSE i \in 1..Len(title) :
                    title[i] # " " /\ \A j \in (i + 1)..Len(title) : title[j] = " ")

\* lines 87-88: `if " - " in title: title = title.split(" - ")[0]`
CutDash(title) == IF Contains(title, Dash) THEN SplitFirst(title, Dash) ELSE title

\* lines 89-90: `if "|" in title: title = title.split("|")[0]`, an `if` of its
\* own, applied to what lines 87-88 left
CutBar(title) == IF Contains(title, Bar) THEN SplitFirst(title, Bar) ELSE title

\* _clean_search_title
CleanSearchTitle(title) == Strip(CutBar(CutDash(title)))

\* _extract_search_results: organic results, then paid ones
ExtractSearchResults(reply) == reply.organic \o reply.paid

\* _normalize_search_result: asin or product_asin; both an asin and a title needed
ItemAsin(item) == IF ~Falsy(item.asin) THEN item.asin ELSE item.product_asin

HasAsinAndTitle(item) == ~Falsy(ItemAsin(item)) /\ ~Falsy(item.title)

NormalizeSearchResult(item) ==
    IF HasAsinAndTitle(item)
    THEN [ok |-> TRUE,  val |-> [asin |-> ItemAsin(item), title |-> item.title]]
    ELSE [ok |-> FALSE, val |-> [asin |-> None, title |-> None]]

\* the indices of seq whose asin no earlier entry of seq has
FirstSeen(seq) ==
    { i \in 1..Len(seq) : \A j \in 1..(i - 1) : seq[j].asin # seq[i].asin }

\* the entries of seq at the indices kept, in order
Keep(seq, kept) ==
    The({ AsList([ k \in 1..Len(idx) |-> seq[idx[k]] ]) :
            idx \in {SelectSeq([i \in 1..Len(seq) |-> i], LAMBDA i : i \in kept)} })

\* the results of the items that have an asin and a title, in order
NormalizeItems(items) ==
    The({ AsList([i \in 1..Len(valid) |-> NormalizeSearchResult(valid[i]).val]) :
            valid \in {SelectSeq(items, HasAsinAndTitle)} })

\* every result appended, seen before or not
AddItemsSeen(results, items) == results \o NormalizeItems(items)

\* lines 171-175: the items of one reply are normalized in order, and one is
\* appended when it is a result whose asin is not among seen_asins
AddItems(results, items) ==
    The({ The({ Keep(all, kept) : kept \in {FirstSeen(all)} }) :
            all \in {results \o NormalizeItems(items)} })

\* the q-th query of the sweep: strategy-major, page-minor
NumPages(pages) == Max(1, pages)
QueryStrategy(q, pages) == ((q - 1) \div NumPages(pages)) + 1
QueryPage(q, pages)     == ((q - 1) % NumPages(pages)) + 1
NumQueries(pages)       == Len(Strategies) * NumPages(pages)

QueryReply(q, pages, search) == search[<<QueryStrategy(q, pages), QueryPage(q, pages)>>]

\* lines 149-177: the results after the first q queries of the sweep
RECURSIVE SearchLoop(_, _, _)
SearchLoop(q, pages, search) ==
    IF q = 0 THEN <<>>
    ELSE AddItems(SearchLoop(q - 1, pages, search),
                  ExtractSearchResults(QueryReply(q, pages, search)))

\* search_competitors: an exception of a query or of the title cleaning leaves it
SearchCompetitors(query_title, pages, search) ==
    IF TitleRaises(query_title)
       \/ \E q \in 1..NumQueries(pages) : Raises(QueryReply(q, pages, search))
    THEN [ok |-> FALSE, results |-> <<>>]
    ELSE [ok |-> TRUE,  results |-> SearchLoop(NumQueries(pages), pages, search)]

---------------------------------------------------------------------------
(* Product store *)

\* Database.insert_product: the record is appended
InsertProduct(st, rec) == Append(st, rec)

\* Database.get_all_products: every record, in insertion order
GetAllProducts(st) == st

\* Database.get_product: the record whose asin is the argument, NoRecord if none
GetProduct(st, asin) ==
    IF \E i \in 1..Len(st) : st[i].asin = asin
    THEN st[CHOOSE i \in 1..Len(st) :
                /\ st[i].asin = asin
                /\ \A j \in 1..(i - 1) : st[j].asin # asin]
    ELSE NoRecord

\* Database.search_products({"parent_asin": X}): the records whose parent_asin is X
SearchProducts(st, parent_asin) ==
    SelectSeq(st, LAMBDA r : r.parent_asin = parent_asin)

---------------------------------------------------------------------------
(* Orchestration service *)

CategoryCap == 3
DetailCap   == 20

\* scrape_and_store_product: an exception of the scrape leaves the store as it was
StoreScraped(st, data) ==
    IF data.ok
    THEN [ok |-> TRUE,  store |-> InsertProduct(st, data.val)]
    ELSE [ok |-> FALSE, store |-> st]

ScrapeAndStoreProduct(st, asin, detail) ==
    StoreScraped(st, ScrapeProductDetails(asin, detail))

\* lines 30-31: `if not parent: return []`
ParentMissing(parent) == parent = NoRecord

CatPool == <<"c1", "c2", "c3", "c4">>

\* lines 39-54: the truthy categories of the parent, once each, the first three
SearchCategories(parent) ==
    LET cats == { c \in Range(parent.categories) \cup Range(parent.category_path) :
                    ~Falsy(c) }
        all  == SelectSeq(CatPool, LAMBDA c : c \in cats)
    IN  SubSeq(all, 1, Min(CategoryCap, Len(all)))

\* lines 53-62: one search per category, the hits accumulated; a search that
\* raises ends the loop
RECURSIVE SearchAll(_, _, _, _, _)
SearchAll(all_results, ncat, title, pages, search) ==
    IF ncat = 0 THEN [ok |-> TRUE, results |-> all_results]
    ELSE LET r == SearchCompetitors(title, pages, search)
         IN  IF ~r.ok THEN [ok |-> FALSE, results |-> <<>>]
             ELSE SearchAll(all_results \o r.results, ncat - 1, title, pages, search)

\* lines 65-68: the asins of the hits, the parent's own left out
CandidateAsins(all_results, parent_asin) ==
    { all_results[i].asin : i \in 1..Len(all_results) } \ {parent_asin, None, ""}

\* every candidate fetched
Uncapped(competitor_asins) == competitor_asins

\* line 71: competitor_asins[:20]
CapCandidates(competitor_asins) ==
    SubSeq(competitor_asins, 1, Min(DetailCap, Len(competitor_asins)))

\* a competitor stored as the batch returned it
Unstamped(comp, parent_asin) == comp

\* line 76: comp["parent_asin"] = parent_asin
StampParent(comp, parent_asin) == [comp EXCEPT !.parent_asin = parent_asin]

\* lines 74-78: every fetched record is stamped and inserted, in order
StoreCompetitors(st, product_details, parent_asin) ==
    st \o AsList([i \in 1..Len(product_details) |->
                     StampParent(product_details[i], parent_asin)])

\* what one call of fetch_and_store_competitors did: the store after it, whether
\* an exception left it, the candidates found and the detail queries sent
NoFetch(st) ==
    [raised |-> FALSE, store |-> st, searched |-> FALSE, candidates |-> {},
     attempts |-> <<>>, events |-> <<>>]

\* lines 73-92: the fetched records are stored
FetchStored(st, parent_asin, candidates, batch) ==
    [raised     |-> FALSE,
     store      |-> StoreCompetitors(st, batch.products, parent_asin),
     searched   |-> TRUE,
     candidates |-> candidates,
     attempts   |-> batch.attempts,
     events     |-> batch.events]

\* lines 64-71: the candidates, in the order list(set(...)) gives, the first 20 fetched
FetchCandidates(st, parent_asin, candidates, api, ord) ==
    The({ FetchStored(st, parent_asin, candidates, batch) :
            batch \in {ScrapeMultipleProducts(CapCandidates(ListOfSet(candidates, ord)),
                                              api.detail)} })

\* lines 53-68: an exception of a search leaves the call
FetchFound(st, parent_asin, found, api, ord) ==
    IF ~found.ok
    THEN [raised |-> TRUE, store |-> st, searched |-> TRUE, candidates |-> {},
          attempts |-> <<>>, events |-> <<>>]
    ELSE The({ FetchCandidates(st, parent_asin, candidates, api, ord) :
                 candidates \in {CandidateAsins(found.results, parent_asin)} })

\* lines 29-62: no parent, no competitors; else the searches by the parent's title
FetchForParent(st, parent_asin, parent, api, pages, ord) ==
    IF ParentMissing(parent) THEN NoFetch(st)
    ELSE The({ FetchFound(st, parent_asin, found, api, ord) :
                 found \in {SearchAll(<<>>, Len(SearchCategories(parent)), parent.title,
                                      pages, api.search)} })

\* fetch_and_store_competitors; ord is the order list(set(...)) happens to give
FetchAndStoreCompetitors(st, parent_asin, api, pages, ord) ==
    The({ FetchForParent(store0, parent_asin, parent, api, pages, ord) :
            store0 \in {st}, parent \in {GetProduct(st, parent_asin)} })

---------------------------------------------------------------------------
(* Dashboard controller: one run of main() *)

ItemsPerPage == 5
Pages        == 2

\* line 93
TotalPages(n) == Max((n + ItemsPerPage - 1) \div ItemsPerPage, 1)

\* lines 99-102: products[start_idx:end_idx] of page `page` (counted from 1)
PageSlice(products, page) ==
    SubSeq(products, (page - 1) * ItemsPerPage + 1,
           Min((page - 1) * ItemsPerPage + ItemsPerPage, Len(products)))

\* a scrape action whose except branch also deleted the selection
ScrapeOutcomeClearing(st, sess, saved, reply_asin) ==
    IF saved.ok
    THEN [store |-> saved.store, session |-> None, outcome |-> "ok",
          reply_asin |-> reply_asin]
    ELSE [store |-> st, session |-> None, outcome |-> "failed", reply_asin |-> None]

\* lines 74-81: a success deletes the selection; an exception is caught and shown
ScrapeOutcome(st, sess, saved, reply_asin) ==
    IF saved.ok
    THEN [store |-> saved.store, session |-> None, outcome |-> "ok",
          reply_asin |-> reply_asin]
    ELSE [store |-> st, session |-> sess, outcome |-> "failed", reply_asin |-> None]

\* lines 72-81: the scrape action
ScrapeAction(st, sess, pressed, asin, api) ==
    IF pressed /\ asin # ""
    THEN ScrapeOutcome(st, sess, ScrapeAndStoreProduct(st, asin, api.detail),
                       ExtractContent(api.detail[asin]).asin)
    ELSE [store |-> st, session |-> sess, outcome |-> "none", reply_asin |-> None]

\* lines 87-103: the asins of the cards of the page
Cards(products, page) ==
    IF products # <<>> THEN { r.asin : r \in Range(PageSlice(products, page)) } ELSE {}

\* a card whose button left the session alone
AnalyzeIgnored(sess, pressed, key, cards) == sess

\* lines 63-64: the pressed "Analyze Competitors" button of a rendered card
AnalyzeAction(sess, pressed, key, cards) ==
    IF pressed /\ key \in cards THEN key ELSE sess

\* a deep-dive that discovered whatever is cached
AlwaysDiscover(existing_comps) == TRUE

\* line 114: `if not existing_comps`
AutoDiscover(existing_comps) == existing_comps = <<>>

\* what is kept of one call of fetch_and_store_competitors
FetchLog(called, fetch) ==
    [called |-> called, raised |-> fetch.raised, searched |-> fetch.searched,
     attempts |-> fetch.attempts]

\* lines 126-143: the two buttons, reached when the discovery raised nothing
DeepDiveButtons(cached, auto_called, auto, refresh_called, refresh, ai_called, llm_ok) ==
    [store         |-> refresh.store,
     shown         |-> TRUE,
     cached        |-> cached,
     auto          |-> FetchLog(auto_called, auto),
     refresh       |-> FetchLog(refresh_called, refresh),
     refresh_shown |-> ~auto.raised,
     rerun         |-> refresh_called /\ ~refresh.raised,
     ai_shown      |-> ~auto.raised /\ ~refresh_called,
     ai_called     |-> ai_called,
     raised        |-> auto.raised \/ refresh.raised \/ (ai_called /\ ~llm_ok)]

\* lines 128-136: "Refresh Data" calls the discovery whatever is cached
DeepDiveRefresh(selected_asin, trigger, api, ord, llm_ok, cached, auto_called, auto) ==
    DeepDiveButtons(cached, auto_called, auto,
                    ~auto.raised /\ trigger = "refresh",
                    IF ~auto.raised /\ trigger = "refresh"
                    THEN FetchAndStoreCompetitors(auto.store, selected_asin, api, Pages, ord)
                    ELSE NoFetch(auto.store),
                    ~auto.raised /\ trigger = "ai", llm_ok)

\* lines 114-124: no cached competitor, so the discovery is called
DeepDiveCache(st, selected_asin, trigger, api, ord, llm_ok, existing_comps) ==
    DeepDiveRefresh(selected_asin, trigger, api, ord, llm_ok, Len(existing_comps),
                    AutoDiscover(existing_comps),
                    IF AutoDiscover(existing_comps)
                    THEN FetchAndStoreCompetitors(st, selected_asin, api, Pages, ord)
                    ELSE NoFetch(st))

\* lines 107-143: the deep-dive section of the selection
DeepDive(st, selected_asin, trigger, api, ord, llm_ok) ==
    DeepDiveCache(st, selected_asin, trigger, api, ord, llm_ok,
                  SearchProducts(st, selected_asin))

NoDeepDive(st) ==
    [store |-> st, shown |-> FALSE, cached |-> 0, auto |-> FetchLog(FALSE, NoFetch(st)),
     refresh |-> FetchLog(FALSE, NoFetch(st)), refresh_shown |-> FALSE, rerun |-> FALSE,
     ai_shown |-> FALSE, ai_called |-> FALSE, raised |-> FALSE]

\* the state after the run and the record of the run
RunResult(trigger, asin, key, scraped, products, cards, selected_asin, deep) ==
    [store   |-> deep.store,
     session |-> selected_asin,
     turn    |-> [trigger       |-> trigger,
                  asin          |-> asin,
                  key           |-> key,
                  scrape        |-> scraped.outcome,
                  reply_asin    |-> scraped.reply_asin,
                  products      |-> Len(products),
                  cards         |-> cards,
                  selected      |-> selected_asin,
                  deep_shown    |-> deep.shown,
                  cached        |-> deep.cached,
                  auto          |-> deep.auto,
                  refresh       |-> deep.refresh,
                  refresh_shown |-> deep.refresh_shown,
                  ai_shown      |-> deep.ai_shown,
                  ai_called     |-> deep.ai_called,
                  rerun         |-> deep.rerun,
                  raised        |-> deep.raised]]

\* lines 106-107: the section is rendered when there is a selection
RunDeepDive(trigger, asin, key, api, ord, llm_ok, scraped, products, cards, selected_asin) ==
    RunResult(trigger, asin, key, scraped, products, cards, selected_asin,
              IF ~Falsy(selected_asin)
              THEN DeepDive(scraped.store, selected_asin, trigger, api, ord, llm_ok)
              ELSE NoDeepDive(scraped.store))

\* lines 84-103: the inventory, a card for every product of the page
RunInventory(trigger, asin, key, page, api, ord, llm_ok, scraped, products) ==
    RunDeepDive(trigger, asin, key, api, ord, llm_ok, scraped, products,
                Cards(products, page),
                AnalyzeAction(scraped.session, trigger = "analyze", key,
                              Cards(products, page)))

\* lines 72-85: the scrape action, then the products are loaded
RunScraped(trigger, asin, key, page, api, ord, llm_ok, scraped) ==
    RunInventory(trigger, asin, key, page, api, ord, llm_ok, scraped,
                 GetAllProducts(scraped.store))

\* main()
RunMain(st, sess, trigger, asin, key, page, api, ord, llm_ok) ==
    RunScraped(trigger, asin, key, page, api, ord, llm_ok,
               ScrapeAction(st, sess, trigger = "scrape", asin, api))

---------------------------------------------------------------------------
(* The scraping API as the dashboard sees it in one turn *)

DashAsins == {"B01", "B02"}

NextAsin(a) == AsinPool[(PoolIndex(a) % Cardinality(DashAsins)) + 1]

DetailShapes == {"full", "omit", "empty", "other", "raise"}

\* the content of a listing: what a detail reply says besides the asin
Listing(asin) ==
    [asin |-> asin, title |-> "T", categories |-> <<"c1">>, category_path |-> <<"", "c1">>]

\* the reply to the detail query of asin a: the asin is a's, is left out, is
\* empty or is another listing's; or the query fails
DetailReply(shape, a) ==
    [status  |-> IF shape = "raise" THEN "raise" ELSE "ok",
     content |->
        CASE shape = "full"  -> Listing(a)
          [] shape = "omit"  -> Listing(None)
          [] shape = "empty" -> Listing("")
          [] shape = "other" -> Listing(NextAsin(a))
          [] OTHER           -> EmptyContent]

Hit(a, title) == [asin |-> a, product_asin |-> None, title |-> title]

QueryKeys(pages) == (1..Len(Strategies)) \X (1..NumPages(pages))

SearchFails == [status |-> "raise", organic |-> <<>>, paid |-> <<>>]

\* every query of the sweep answers with the asins of S as organic hits
SearchReply(S) ==
    [status  |-> "ok",
     organic |-> [i \in 1..Cardinality(S) |-> Hit(ListOfSet(S, 0)[i], "T")],
     paid    |-> <<>>]

SearchWorld(reply) == [k \in QueryKeys(Pages) |-> reply]

DetailWorld(shape) == [a \in DashAsins |-> DetailReply(shape, a)]

\* The replies one run can meet.  A reply no query of the run asks for is read by
\* nothing, so one world stands for all that differ in such replies only:
\*   scraping  - the run sends the detail query of the scrape action
\*   searching - the run sends search queries
\* A search that fails or has no hit is followed by no detail query; the hits of
\* the other search are all listings, the parent's own among them.
ApiWorlds(scraping, searching) ==
    { [detail |-> DetailWorld(shape), search |-> SearchWorld(SearchReply(DashAsins))] :
        shape \in { d \in DetailShapes : searching \/ (scraping /\ d # "raise") } }
    \cup
    { [detail |-> DetailWorld("raise"), search |-> SearchWorld(reply)] :
        reply \in IF searching THEN {SearchFails, SearchReply({})} ELSE {SearchFails} }

---------------------------------------------------------------------------
(* The dashboard *)

Idle == [idle |-> TRUE]

FirstTurn ==
    [trigger |-> "start", asin |-> "", key |-> None, scrape |-> "none",
     reply_asin |-> None,
     products |-> 0, cards |-> {}, selected |-> None, deep_shown |-> FALSE,
     cached |-> 0, auto |-> FetchLog(FALSE, NoFetch(<<>>)),
     refresh |-> FetchLog(FALSE, NoFetch(<<>>)),
     refresh_shown |-> FALSE, ai_shown |-> FALSE, ai_called |-> FALSE,
     rerun |-> FALSE, raised |-> FALSE]

Init ==
    /\ store = <<>>
    /\ session = None
    /\ turn = FirstTurn
    /\ sIn = Idle /\ sOut = Idle
    /\ bIn = Idle /\ bOut = Idle
    /\ cIn = Idle /\ cOut = Idle
    /\ tIn = Idle /\ tOut = Idle

\* one run of main(), its inputs given
Run(trigger, asin, key, api, ord, llm_ok) ==
    \E page \in 1..TotalPages(Len(store) + 1) :
        \E after \in {RunMain(store, session, trigger, asin, key, page, api, ord, llm_ok)} :
            /\ page <= TotalPages(after.turn.products)
            /\ Len(after.store) <= MaxStore
            /\ store' = after.store
            /\ session' = after.session
            /\ turn' = after.turn
            /\ UNCHANGED <<sIn, sOut, bIn, bOut, cIn, cOut, tIn, tOut>>

\* the orders list(set(...)) may give the candidates of one turn
Orders == 0..Max(0, Cardinality(DashAsins) - 2)

\* the deep-dive of selection sel sends search queries: nothing is cached for it,
\* or "Refresh Data" is pressed
Searching(sel, trigger) ==
    sel # None /\ (SearchProducts(store, sel) = <<>> \/ trigger = "refresh")

\* a run no button started: the page is opened, an input or the page number changed
PlainTurn ==
    /\ ~turn.rerun
    /\ \E api \in ApiWorlds(FALSE, Searching(session, "none")), ord \in Orders :
            Run("none", "", None, api, ord, TRUE)

\* "Scrape Product Details" pressed, the ASIN field holding asin
ScrapeTurn ==
    /\ ~turn.rerun
    /\ \E asin \in DashAsins \cup {""} :
       \E api \in ApiWorlds(asin # "", Searching(session, "scrape")), ord \in Orders :
            Run("scrape", asin, None, api, ord, TRUE)

\* "Analyze Competitors" pressed on a card the last run rendered
AnalyzeTurn ==
    /\ ~turn.rerun
    /\ \E key \in turn.cards :
       \E api \in ApiWorlds(FALSE, Searching(key, "analyze")), ord \in Orders :
            Run("analyze", "", key, api, ord, TRUE)

\* "Refresh Data" pressed
RefreshTurn ==
    /\ ~turn.rerun
    /\ turn.refresh_shown
    /\ \E api \in ApiWorlds(FALSE, Searching(session, "refresh")), ord \in Orders :
            Run("refresh", "", None, api, ord, TRUE)

\* "Run AI Price Analysis" pressed
AnalysisTurn ==
    /\ ~turn.rerun
    /\ turn.ai_shown
    /\ \E api \in ApiWorlds(FALSE, Searching(session, "ai")), ord \in Orders,
          llm_ok \in BOOLEAN :
            Run("ai", "", None, api, ord, llm_ok)

\* line 136: st.rerun() runs the script again at once
RerunTurn ==
    /\ turn.rerun
    /\ \E api \in ApiWorlds(FALSE, Searching(session, "rerun")), ord \in Orders :
            Run("rerun", "", None, api, ord, TRUE)

Next ==
    \/ PlainTurn
    \/ ScrapeTurn
    \/ AnalyzeTurn
    \/ RefreshTurn
    \/ AnalysisTurn
    \/ RerunTurn

Spec == Init /\ [][Next]_vars

---------------------------------------------------------------------------
(* Properties of the dashboard *)

\* the records the run of this step appended to the store
NewRecords == SubSeq(store', Len(store) + 1, Len(store'))

\* this step is a run of main() that pressed `trigger`
Pressed(trigger) == turn'.trigger = trigger

\* C1: no persisted record has parent_asin = X together with asin = X: the
\* parent's own ASIN never appears among its own persisted competitors.
C1_SelfExclusion ==
    \A i \in 1..Len(store) :
        store[i].parent_asin = None \/ store[i].parent_asin # store[i].asin

\* C2: on a turn with a selection S the automatic discovery is called exactly
\* when the store holds no record with parent_asin = S; "Refresh Data" calls the
\* discovery on its turn whether or not competitor records are cached.
C2_CacheHitSuppression ==
    [][ /\ turn'.deep_shown =>
            /\ turn'.selected # None
            /\ turn'.auto.called <=> (SearchProducts(store, turn'.selected) = <<>>)
        /\ ~turn'.deep_shown => ~turn'.auto.called /\ ~turn'.refresh.called
        /\ Pressed("refresh") =>
            /\ turn'.auto.called \/ turn'.refresh.called
            /\ SearchProducts(store, turn'.selected) # <<>> => turn'.refresh.called
        /\ turn'.refresh.called => Pressed("refresh")
      ]_vars

\* a turn of "Refresh Data" with competitors cached: the discovery is called by
\* the button and not by the rendering
C2_Witness ==
    /\ turn.trigger = "refresh"
    /\ turn.cached > 0
    /\ turn.refresh.called
    /\ ~turn.auto.called

\* C3: every record with parent_asin = X coexists with a record whose asin is
\* X; a record persisted by scrape-and-store-product has no parent_asin; the
\* records fetch-and-store-competitors persists carry the parentAsin it was
\* called with, and no persisted record is changed.
C3_ParentCompetitor ==
    /\ [](\A i \in 1..Len(store) :
            store[i].parent_asin # None =>
                \E j \in 1..Len(store) : store[j].asin = store[i].parent_asin)
    /\ [][ /\ SubSeq(store', 1, Len(store)) = store
           /\ turn'.scrape = "ok" =>
                /\ Len(store') = Len(store) + 1
                /\ store'[Len(store')].parent_asin = None
           /\ turn'.scrape # "ok" =>
                \A i \in 1..Len(NewRecords) :
                    /\ turn'.selected # None
                    /\ NewRecords[i].parent_asin = turn'.selected
         ]_vars

\* a stored competitor of a stored product, and a product scraped on this turn
C3_Witness ==
    /\ turn.scrape = "ok"
    /\ store[Len(store)].parent_asin = None
    /\ \E i \in 1..Len(store) : store[i].parent_asin # None

C5_SelectionLifecycle ==
    [][ /\ Pressed("analyze") =>
            /\ session' = turn'.key
            /\ \E i \in 1..Len(store) : store[i].asin = session'
        /\ turn'.scrape = "ok" =>
            /\ session' = None
            /\ ~turn'.deep_shown
            /\ ~turn'.auto.called
            /\ ~turn'.refresh.called
            /\ Len(store') = Len(store) + 1
        /\ (~Pressed("analyze") /\ turn'.scrape # "ok") => session' = session
      ]_vars

\* "Analyze Competitors" pressed on the card of a stored product while another
\* selection's competitors are stored
C5_Witness ==
    /\ turn.trigger = "analyze"
    /\ session = turn.key
    /\ \E i \in 1..Len(store) :
          store[i].parent_asin # None /\ store[i].parent_asin # session

\* the last call of fetch_and_store_competitors of the turn, and its fetches
\* that raised nothing
LastFetch == IF turn.refresh.called THEN turn.refresh ELSE turn.auto
Fetched == SelectSeq(LastFetch.attempts, LAMBDA t : t.ok)

\* C9: every record scrape-product-details returns, and so every persisted
\* record, has a non-empty asin; when the response omits the asin or gives an
\* empty one, the record's asin is the requested ASIN.
C9_AsinNeverEmpty ==
    /\ \A shape \in DetailShapes, a \in DashAsins :
          ScrapeProductDetails(a, DetailWorld(shape)).ok =>
              ~Falsy(ScrapeProductDetails(a, DetailWorld(shape)).val.asin)
    /\ \A i \in 1..Len(store) : ~Falsy(store[i].asin)
    /\ turn.scrape = "ok" =>
          store[turn.products].asin =
              IF Falsy(turn.reply_asin) THEN turn.asin ELSE turn.reply_asin
    /\ \A k \in 1..Len(Fetched) :
          store[Len(store) - Len(Fetched) + k].asin =
              IF Falsy(Fetched[k].reply_asin) THEN Fetched[k].req
              ELSE Fetched[k].reply_asin

\* a competitor persisted from a response with an empty asin, beside a product
\* persisted under the requested ASIN
C9_Witness ==
    /\ Len(Fetched) > 0
    /\ Fetched[Len(Fetched)].reply_asin = ""
    /\ store[Len(store)].asin = Fetched[Len(Fetched)].req
    /\ store[1].parent_asin = None

---------------------------------------------------------------------------
(* scrape_multiple_products on its own *)

MaxBatch == 3   \* asins of a batch

BatchAsins  == {"B01", "B02", "B03"}
BatchShapes == {"full", "omit", "raise"}

\* the lists of at most n members of S
Lists(S, n) == UNION { { AsList(l) : l \in [1..k -> S] } : k \in 0..n }

\* a reply for every asin
BatchDetails ==
    { [a \in BatchAsins |-> DetailReply(shape[a], a)] :
        shape \in [BatchAsins -> BatchShapes] }

DashboardIdle == store = <<>> /\ session = None /\ turn = FirstTurn

InitBatch ==
    /\ DashboardIdle
    /\ bIn \in { [asins |-> l, detail |-> d] :
                   l \in Lists(BatchAsins, MaxBatch), d \in BatchDetails }
    /\ bOut = Idle
    /\ sIn = Idle /\ sOut = Idle
    /\ cIn = Idle /\ cOut = Idle
    /\ tIn = Idle /\ tOut = Idle

BatchRun ==
    /\ bOut = Idle
    /\ bOut' = ScrapeMultipleProducts(bIn.asins, bIn.detail)
    /\ UNCHANGED <<store, session, turn, sIn, sOut, bIn, cIn, cOut, tIn, tOut>>

NextBatch == BatchRun

SpecBatch == InitBatch /\ [][NextBatch]_vars

\* the fetch of the i-th asin of the batch raises nothing
BatchOk(i) == bIn.detail[bIn.asins[i]].status # "raise"

\* the position of the k-th asin whose fetch raises nothing
BatchOkIndex(k) ==
    CHOOSE i \in 1..Len(bIn.asins) :
        BatchOk(i) /\ Cardinality({ j \in 1..i : BatchOk(j) }) = k

\* C7: scrape-multiple-products attempts every ASIN in list order whatever
\* fetches fail, and returns exactly the records of the ASINs whose fetch
\* succeeded, in input order.
C7_BatchPartialFailure ==
    bOut # Idle =>
        /\ Len(bOut.attempts) = Len(bIn.asins)
        /\ \A i \in 1..Len(bIn.asins) :
              /\ bOut.attempts[i].req = bIn.asins[i]
              /\ bOut.attempts[i].ok = BatchOk(i)
        /\ SelectSeq(bOut.events, LAMBDA e : e.e = "query")
              = [i \in 1..Len(bIn.asins) |-> QueryEvent(bIn.asins[i])]
        /\ Len(bOut.products) = Cardinality({ i \in 1..Len(bIn.asins) : BatchOk(i) })
        /\ \A k \in 1..Len(bOut.products) :
              bOut.products[k] =
                  ScrapeProductDetails(bIn.asins[BatchOkIndex(k)], bIn.detail).val

\* a batch of three whose second fetch fails and whose third is returned
C7_Witness ==
    /\ bOut # Idle
    /\ Len(bIn.asins) = 3
    /\ BatchOk(1) /\ ~BatchOk(2) /\ BatchOk(3)
    /\ Len(bOut.products) = 2
    /\ bOut.products[2].asin = bIn.asins[3]

\* C10: a pause follows every fetch attempt of the batch, failed or not, so a
\* pause lies between any two consecutive detail queries.
C10_PauseAfterEveryAttempt ==
    bOut # Idle =>
        \A k \in 1..Len(bOut.events) :
            bOut.events[k].e = "query" =>
                /\ k < Len(bOut.events)
                /\ bOut.events[k + 1] = PauseEvent

---------------------------------------------------------------------------
(* search_competitors on its own *)

MaxPages == 2   \* the pages argument

\* the hits a reply is made of: of two listings, without title, without asin,
\* with product_asin only
SearchItems(tag) ==
    { Hit("B01", tag), Hit("B02", tag), Hit("B01", ""), Hit("", tag),
      [asin |-> None, product_asin |-> "B02", title |-> tag] }

SearchReplies(tag) ==
    { [status |-> "ok", organic |-> o, paid |-> p] :
        o \in {<<>>} \cup { <<x>> : x \in SearchItems(tag) },
        p \in {<<>>, <<Hit("B01", tag)>>} }

QueryKey(q, pages) == <<QueryStrategy(q, pages), QueryPage(q, pages)>>

\* two queries of the sweep have hits, the hits of each marked by their title
SearchWorlds(pages) ==
    { [k \in QueryKeys(pages) |->
          IF k = QueryKey(i, pages) THEN r1
          ELSE IF k = QueryKey(j, pages) THEN r2 ELSE SearchReply({})] :
        i \in 1..NumQueries(pages), j \in 1..NumQueries(pages),
        r1 \in SearchReplies("T1"), r2 \in SearchReplies("T2") \cup {SearchFails} }

InitSearch ==
    /\ DashboardIdle
    /\ sIn \in UNION { { [title |-> "T", pages |-> pages, search |-> w] :
                           w \in SearchWorlds(pages) } : pages \in 1..MaxPages }
    /\ sOut = Idle
    /\ bIn = Idle /\ bOut = Idle
    /\ cIn = Idle /\ cOut = Idle
    /\ tIn = Idle /\ tOut = Idle

SearchRun ==
    /\ sOut = Idle
    /\ sOut' = SearchCompetitors(sIn.title, sIn.pages, sIn.search)
    /\ UNCHANGED <<store, session, turn, sIn, bIn, bOut, cIn, cOut, tIn, tOut>>

NextSearch == SearchRun

SpecSearch == InitSearch /\ [][NextSearch]_vars

\* the hits of the q-th query that have both an ASIN and a title
ValidHits(q) ==
    SelectSeq(sIn.search[QueryKey(q, sIn.pages)].organic
                  \o sIn.search[QueryKey(q, sIn.pages)].paid,
              LAMBDA x : /\ x.asin \notin {None, ""} \/ x.product_asin \notin {None, ""}
                         /\ x.title \notin {None, ""})

HitAsin(x) == IF x.asin \notin {None, ""} THEN x.asin ELSE x.product_asin

HitAsins(q) == { HitAsin(ValidHits(q)[i]) : i \in 1..Len(ValidHits(q)) }

\* the first query that returned a, and its first hit of a
FirstQuery(a) ==
    CHOOSE q \in 1..(4 * sIn.pages) :
        a \in HitAsins(q) /\ \A p \in 1..(q - 1) : a \notin HitAsins(p)

FirstHit(a) == SelectSeq(ValidHits(FirstQuery(a)), LAMBDA x : HitAsin(x) = a)[1]

\* C8: the list search-competitors returns holds each ASIN at most once, holds
\* exactly the ASINs of the hits with both an ASIN and a title, and keeps for
\* each ASIN the entry of the first query, strategy-major and page-minor, that
\* returned it.
C8_DedupAcrossStrategies ==
    (sOut # Idle /\ sOut.ok) =>
        /\ \A i, j \in 1..Len(sOut.results) :
              i # j => sOut.results[i].asin # sOut.results[j].asin
        /\ { sOut.results[i].asin : i \in 1..Len(sOut.results) }
              = UNION { HitAsins(q) : q \in 1..(4 * sIn.pages) }
        /\ \A i \in 1..Len(sOut.results) :
              sOut.results[i].title = FirstHit(sOut.results[i].asin).title

\* a listing two queries returned, once under product_asin: the entry is the
\* first query's
C8_Witness ==
    /\ sOut # Idle
    /\ sOut.ok
    /\ \E q \in 1..(4 * sIn.pages) :
          /\ HitAsins(q) = {"B01", "B02"}
          /\ \E p \in 1..(q - 1) : HitAsins(p) = {"B02"}
    /\ Len(sOut.results) = 2
    /\ sOut.results[1] = [asin |-> "B02", title |-> "T1"]
    /\ sOut.results[2] = [asin |-> "B01", title |-> "T2"]

---------------------------------------------------------------------------
(* fetch_and_store_competitors on its own *)

MaxCand == 22   \* listings the searches return besides the parent's

CapParent == "B01"

CapOrders == {0, 5}

\* the store holds the parent, which has one category or two
CapStores ==
    { <<[asin |-> CapParent, title |-> "T", categories |-> cats,
         category_path |-> <<>>, parent_asin |-> None]>> :
        cats \in { <<"c1">>, <<"c1", "c2">> } }

\* n listings, the parent's own with them or not
CapHits(n, self) ==
    { AsinPool[i] : i \in 2..(n + 1) } \cup (IF self THEN {CapParent} ELSE {})

\* the first query returns the first listings of S and the last query all of S
CapSearch(S) ==
    [k \in QueryKeys(Pages) |->
        IF k = <<1, 1>> THEN SearchReply({ a \in S : PoolIndex(a) <= 12 })
        ELSE IF k = <<Len(Strategies), Pages>> THEN SearchReply(S)
        ELSE SearchReply({})]

\* every third detail query fails, from the fail-th on; none when fail = 0
CapDetail(fail) ==
    [a \in Range(AsinPool) |->
        DetailReply(IF fail > 0 /\ PoolIndex(a) % 3 = fail - 1 THEN "raise" ELSE "full", a)]

InitCap ==
    /\ DashboardIdle
    /\ cIn \in { [store |-> st, parent_asin |-> CapParent, ord |-> ord,
                  hits |-> CapHits(n, self),
                  api |-> [detail |-> CapDetail(fail),
                           search |-> CapSearch(CapHits(n, self))]] :
                   st \in CapStores, ord \in CapOrders, n \in 0..MaxCand,
                   self \in BOOLEAN, fail \in 0..3 }
    /\ cOut = Idle
    /\ sIn = Idle /\ sOut = Idle
    /\ bIn = Idle /\ bOut = Idle
    /\ tIn = Idle /\ tOut = Idle

CapRun ==
    /\ cOut = Idle
    /\ cOut' = FetchAndStoreCompetitors(cIn.store, cIn.parent_asin, cIn.api, Pages,
                                        cIn.ord)
    /\ UNCHANGED <<store, session, turn, sIn, sOut, bIn, bOut, cIn, tIn, tOut>>

NextCap == CapRun

SpecCap == InitCap /\ [][NextCap]_vars

\* the attempts of the call that raised nothing
CapFetched == SelectSeq(cOut.attempts, LAMBDA t : t.ok)

\* C6: with n distinct candidates, the parent excluded, one call attempts the
\* details of exactly min(n, 20) ASINs, each a candidate and each once, and
\* persists one record for each attempt that succeeded: the store grows by the
\* attempts less the failures, never by more than 20.
C6_DetailCap ==
    cOut # Idle =>
        /\ cOut.candidates = cIn.hits \ {cIn.parent_asin}
        /\ Len(cOut.attempts) = Min(Cardinality(cIn.hits \ {cIn.parent_asin}), 20)
        /\ \A i \in 1..Len(cOut.attempts) :
              /\ cOut.attempts[i].req \in cIn.hits \ {cIn.parent_asin}
              /\ \A j \in 1..Len(cOut.attempts) :
                    i # j => cOut.attempts[i].req # cOut.attempts[j].req
        /\ Len(cOut.store) = Len(cIn.store) + Len(CapFetched)
        /\ Len(cOut.store) <= Len(cIn.store) + 20
        /\ SubSeq(cOut.store, 1, Len(cIn.store)) = cIn.store
        /\ \A k \in 1..Len(CapFetched) :
              /\ cOut.store[Len(cIn.store) + k].asin = CapFetched[k].req
              /\ cOut.store[Len(cIn.store) + k].parent_asin = cIn.parent_asin

\* more than 20 candidates, the parent among the hits, 20 attempts, some failed
C6_Witness ==
    /\ cOut # Idle
    /\ Cardinality(cOut.candidates) > 20
    /\ cIn.parent_asin \in cIn.hits
    /\ Len(cOut.attempts) = 20
    /\ Len(CapFetched) < 20
    /\ Len(cOut.store) = Len(cIn.store) + Len(CapFetched)

---------------------------------------------------------------------------
(* _clean_search_title on its own *)

MaxTitle == 5   \* characters of a title

TitleChars == {"a", " ", "-", "|"}

\* the titles of at most MaxTitle characters
Titles == Lists(TitleChars, MaxTitle)

InitTitle ==
    /\ DashboardIdle
    /\ tIn \in Titles
    /\ tOut = Idle
    /\ sIn = Idle /\ sOut = Idle
    /\ bIn = Idle /\ bOut = Idle
    /\ cIn = Idle /\ cOut = Idle

TitleRun ==
    /\ tOut = Idle
    /\ tOut' = [val |-> CleanSearchTitle(tIn)]
    /\ UNCHANGED <<store, session, turn, sIn, sOut, bIn, bOut, cIn, cOut, tIn>>

NextTitle == TitleRun

SpecTitle == InitTitle /\ [][NextTitle]_vars

\* the title up to its first " - " when it has one; else up to its first "|"
\* when it has one; else all of it
TruncatedTitle ==
    IF Contains(tIn, Dash) THEN SplitFirst(tIn, Dash)
    ELSE IF Contains(tIn, Bar) THEN SplitFirst(tIn, Bar)
    ELSE tIn

\* C11: clean-search-title returns the title truncated at the first " - " when
\* " - " is present, truncated at the first "|" only when " - " is not present,
\* and then trimmed: a title with " - " is never cut at a "|" before that " - ".
C11_TitleCleaning ==
    tOut # Idle => tOut.val = Strip(TruncatedTitle)

===========================================================================
